---- MODULE Spec2Model ----
(***************************************************************************)
(* Model of supervised/tuner/hill_climbing.py : HillClimbing.get, the      *)
(* single hill-climbing step over the search space that the algorithms     *)
(* registry declares (supervised/algorithms/xgboost.py registers such      *)
(* spaces).  Two specifications are given:                                 *)
(*   Spec      sequential callers: each call of get is one atomic action;  *)
(*   ConcSpec  two threads inside get at the same time, interleaved at the *)
(*             two statements that touch numpy's process-wide generator.   *)
(*                                                                         *)
(* Dictionaries are functions, lists are sequences (1-based), Python's     *)
(* None is the integer 0, objects live in a heap indexed by object id so   *)
(* that copying and aliasing are distinguishable.  The Mersenne Twister is *)
(* abstracted to a counter modulo RngMod: seeding sets it from the seed,   *)
(* a shuffle of n items reads it and advances it by n-1 draws.             *)
(* Configurations always carry model_type, seed and ml_task (otherwise     *)
(* list.remove raises at lines 25-27) and registered values are not None.  *)
(***************************************************************************)
EXTENDS Integers, Sequences, FiniteSets, TLC

\* ---- bounds of the model ----
MaxLen == 3
MaxSeed == 2
RngMod == 3

None == 0
Values == {1, 2}
Seeds == 1..MaxSeed
RngStates == 0..(RngMod - 1)
Threads == {1, 2}

\* object ids: the caller's params dict, and the two dicts get may allocate
ParamsId == 1
Params1Id == 2
Params2Id == 3

ML_TASK == "regression"
TunableNames == {"eta", "max_depth"}
\* insertion order of the keys of a params dict
KeyOrder == <<"model_type", "seed", "ml_task", "num_class", "eta", "max_depth">>

VARIABLES registry, heap, rng, out, phase, seedArg, ref, tpc, tseed, tout

vars == <<registry, heap, rng, out, phase, seedArg, ref, tpc, tseed, tout>>
seqVars == <<out, phase, seedArg, ref>>
concVars == <<tpc, tseed, tout>>

\* ---- bounded input sets ----
SeqsUpTo(n) == UNION {[1..m -> Values] : m \in 1..n}

Registries ==
  {[regression |-> [Xgboost |-> [params |-> [eta |-> e, max_depth |-> d]]]] :
      e \in SeqsUpTo(MaxLen), d \in SeqsUpTo(2)}

Configs ==
  UNION {[model_type : {"Xgboost", "Baseline"}, seed : {1}, ml_task : {ML_TASK}],
         [model_type : {"Xgboost", "Baseline"}, seed : {1}, ml_task : {ML_TASK},
          num_class : {3}]}

WithTunables(c) ==
  {c} \cup {c @@ ("eta" :> v) : v \in Values}
      \cup {c @@ ("max_depth" :> v) : v \in Values}
      \cup {c @@ ("eta" :> v) @@ ("max_depth" :> w) : v \in Values, w \in Values}

Params == UNION {WithTunables(c) : c \in Configs}

\* ---- numpy.random, abstracted ----
np_random_seed_skipped(old, seed) == old

np_random_seed(old, seed) == seed % RngMod

RemoveAt(s, i) == SubSeq(s, 1, i - 1) \o SubSeq(s, i + 1, Len(s))

RECURSIVE Shuffle(_, _)
Shuffle(s, r) ==
  IF Len(s) <= 1 THEN s
  ELSE LET i == (r % Len(s)) + 1
       IN <<s[i]>> \o Shuffle(RemoveAt(s, i), r \div Len(s))

np_random_permutation(x, r) == Shuffle(x, r)

RngAfterPermutation(x, r) ==
  IF Len(x) <= 1 THEN r ELSE (r + Len(x) - 1) % RngMod

\* ---- HillClimbing.get, statement by statement ----
list_keys(params) == SelectSeq(KeyOrder, LAMBDA k : k \in DOMAIN params)

list_remove(s, x) == SelectSeq(s, LAMBDA e : e # x)

\* lines 22-27
keys_of(params) ==
  LET k0 == list_keys(params)
      k1 == IF "num_class" \in DOMAIN params THEN list_remove(k0, "num_class") ELSE k0
  IN list_remove(list_remove(list_remove(k1, "model_type"), "seed"), "ml_task")

IsBaselineTypo(model_type) == model_type = "baseline"

\* line 30
IsBaseline(model_type) == model_type = "Baseline"

\* line 32: registry[ml_task][model_type] raises KeyError when unregistered
Registered(reg, ml_task, model_type) ==
  /\ ml_task \in DOMAIN reg
  /\ model_type \in DOMAIN reg[ml_task]

\* lines 36-40: the loop leaves key_to_update and values at the first key with
\* more than one value, or at the last key scanned
RECURSIVE ScanKeys(_, _, _)
ScanKeys(permuted_keys, model_params, i) ==
  LET key_to_update == permuted_keys[i]
      values == model_params[key_to_update]
  IN IF Len(values) > 1 \/ i = Len(permuted_keys)
       THEN [key_to_update |-> key_to_update, values |-> values]
       ELSE ScanKeys(permuted_keys, model_params, i + 1)

RightAtSkip(values, i, right) ==
  IF i + 2 <= Len(values) THEN values[i + 2] ELSE right

\* lines 45-46
RightAt(values, i, right) ==
  IF i + 1 <= Len(values) THEN values[i + 1] ELSE right

LeftAtSame(values, i, left) ==
  IF i - 1 >= 1 THEN values[i] ELSE left

LeftAtWrap(values, i, left) ==
  IF i - 1 >= 1 THEN values[i - 1] ELSE values[Len(values)]

\* lines 47-48
LeftAt(values, i, left) ==
  IF i - 1 >= 1 THEN values[i - 1] ELSE left

\* lines 42-48
RECURSIVE ScanValues(_, _, _, _, _)
ScanValues(values, cur, i, left, right) ==
  IF i > Len(values) THEN [left |-> left, right |-> right]
  ELSE IF values[i] = cur
         THEN ScanValues(values, cur, i + 1, LeftAt(values, i, left),
                         RightAt(values, i, right))
         ELSE ScanValues(values, cur, i + 1, left, right)

NoStep(status, r) ==
  [status |-> status, key |-> "", left |-> None, right |-> None, rng |-> r]

\* lines 22-48 after the generator was seeded: r is the generator's state when
\* line 35 reads it
body(params, reg, ml_task, r) ==
  LET keys == keys_of(params)
      model_type == params["model_type"]
  IN IF IsBaseline(model_type) THEN NoStep("ok", r)
     ELSE IF ~Registered(reg, ml_task, model_type) THEN NoStep("KeyError", r)
     ELSE LET model_params == reg[ml_task][model_type]["params"]
              permuted_keys == np_random_permutation(keys, r)
              r2 == RngAfterPermutation(keys, r)
          IN IF Len(permuted_keys) = 0 THEN NoStep("UnboundLocalError", r2)
             ELSE LET sel == ScanKeys(permuted_keys, model_params, 1)
                      lr == ScanValues(sel.values, params[sel.key_to_update], 1,
                                       None, None)
                  IN [status |-> "ok", key |-> sel.key_to_update,
                      left |-> lr.left, right |-> lr.right, rng |-> r2]

\* lines 21-48
get(params, reg, ml_task, seed, old) ==
  body(params, reg, ml_task, np_random_seed(old, seed))

alias(src, fresh) == src

\* copy.deepcopy: the id of the object that holds the copy
deepcopy(src, fresh) == fresh

\* lines 50-58: the heap after the copies were made and updated
Store(h, id, obj) == [i \in (DOMAIN h) \cup {id} |-> IF i = id THEN obj ELSE h[i]]

BuildOutputs(h, res) ==
  LET base == [i \in {ParamsId} |-> h[ParamsId]]
      id1 == deepcopy(ParamsId, Params1Id)
      h1 == IF res.left # None
              THEN Store(base, id1, [base[ParamsId] EXCEPT ![res.key] = res.left])
              ELSE base
      id2 == deepcopy(ParamsId, Params2Id)
      h2 == IF res.right # None
              THEN Store(h1, id2, [h1[ParamsId] EXCEPT ![res.key] = res.right])
              ELSE h1
  IN [heap |-> h2,
      params_1 |-> IF res.left # None THEN id1 ELSE None,
      params_2 |-> IF res.right # None THEN id2 ELSE None]

NoOut == [status |-> "none", key |-> "", params_1 |-> None, params_2 |-> None]
NoRef == [seed |-> 0, status |-> "none", key |-> "", left |-> None, right |-> None]

Init ==
  /\ registry \in Registries
  /\ \E p \in Params :
       /\ heap = [i \in {ParamsId} |-> p]
       /\ tout = [t \in Threads |-> [status |-> "none",
                                     params_1 |-> [present |-> FALSE, config |-> p],
                                     params_2 |-> [present |-> FALSE, config |-> p]]]
  /\ rng \in RngStates
  /\ out = NoOut
  /\ phase = "idle"
  /\ seedArg = 0
  /\ ref = NoRef
  /\ tpc = [t \in Threads |-> "idle"]
  /\ tseed = [t \in Threads |-> 0]

\* one call HillClimbing.get(params, ml_task, seed)
Get(seed) ==
  LET res == get(heap[ParamsId], registry, ML_TASK, seed, rng)
      built == BuildOutputs(heap, res)
  IN /\ rng' = res.rng
     /\ IF res.status = "ok"
          THEN /\ heap' = built.heap
               /\ out' = [status |-> "ok", key |-> res.key,
                          params_1 |-> built.params_1, params_2 |-> built.params_2]
          ELSE /\ heap' = [i \in {ParamsId} |-> heap[ParamsId]]
               /\ out' = [status |-> res.status, key |-> "",
                          params_1 |-> None, params_2 |-> None]
     /\ phase' = "returned"
     /\ seedArg' = seed
     /\ UNCHANGED <<registry, ref, concVars>>

\* the caller changes a configuration that get returned
ModifyReturned(id, k, v) ==
  /\ phase = "returned"
  /\ id \in {out.params_1, out.params_2} \ {None}
  /\ k \in DOMAIN heap[id]
  /\ v # heap[id][k]
  /\ heap' = [heap EXCEPT ![id][k] = v]
  /\ phase' = "modified"
  /\ UNCHANGED <<registry, rng, out, seedArg, ref, concVars>>

\* any other use of numpy's global generator between two calls
OtherRandomUse(r) ==
  /\ rng' = r
  /\ rng # r
  /\ UNCHANGED <<registry, heap, seqVars, concVars>>

Content(id) == IF id = None THEN None ELSE heap[id][out.key]

\* observer: keep the result of the call that just returned, to compare later
\* calls of the same arguments with it
Remember ==
  /\ phase = "returned"
  /\ ref' = [seed |-> seedArg, status |-> out.status, key |-> out.key,
             left |-> Content(out.params_1), right |-> Content(out.params_2)]
  /\ phase' = "remembered"
  /\ UNCHANGED <<registry, heap, rng, out, seedArg, concVars>>

Next ==
  \/ \E seed \in Seeds : Get(seed)
  \/ \E id \in {Params1Id, Params2Id}, k \in TunableNames, v \in Values :
        ModifyReturned(id, k, v)
  \/ \E r \in RngStates : OtherRandomUse(r)
  \/ Remember

Spec == Init /\ [][Next]_vars

\* ---- two threads inside get ----
\* what the caller of get observes of a result: the exception or the pair,
\* each member absent or the input with res.key set to the neighbour
Member(params, key, v) ==
  [present |-> v # None,
   config |-> IF v # None THEN [params EXCEPT ![key] = v] ELSE params]

Outcome(params, res) ==
  [status |-> res.status,
   params_1 |-> Member(params, res.key, res.left),
   params_2 |-> Member(params, res.key, res.right)]

Other(t) == CHOOSE u \in Threads : u # t

\* thread t enters get(params, ml_task, seed) and executes line 21
TCall(t, seed) ==
  /\ tpc[t] = "idle"
  /\ tpc[Other(t)] # "idle" => seed # tseed[Other(t)]
  /\ rng' = np_random_seed(rng, seed)
  /\ tseed' = [tseed EXCEPT ![t] = seed]
  /\ tpc' = [tpc EXCEPT ![t] = "seeded"]
  /\ UNCHANGED <<registry, heap, seqVars, tout>>

\* thread t executes lines 22-58; line 35 reads the shared generator
TFinish(t) ==
  /\ tpc[t] = "seeded"
  /\ LET res == body(heap[ParamsId], registry, ML_TASK, rng)
     IN /\ rng' = res.rng
        /\ tout' = [tout EXCEPT ![t] = Outcome(heap[ParamsId], res)]
  /\ tpc' = [tpc EXCEPT ![t] = "done"]
  /\ UNCHANGED <<registry, heap, seqVars, tseed>>

\* the caller of thread t takes the result
TReturn(t) ==
  /\ tpc[t] = "done"
  /\ tpc' = [tpc EXCEPT ![t] = "idle"]
  /\ tseed' = [tseed EXCEPT ![t] = 0]
  /\ tout' = [tout EXCEPT ![t] = Outcome(heap[ParamsId], NoStep("none", 0))]
  /\ UNCHANGED <<registry, heap, rng, seqVars>>

ConcNext ==
  \/ \E t \in Threads, seed \in Seeds : TCall(t, seed)
  \/ \E t \in Threads : TFinish(t)
  \/ \E t \in Threads : TReturn(t)

ConcSpec == Init /\ [][ConcNext]_vars

\* ---- vocabulary of the properties ----
ReservedKeys == {"model_type", "seed", "ml_task", "num_class"}
P == heap[ParamsId]
Returned == phase = "returned"
Stepped == Returned /\ out.status = "ok" /\ out.key # ""
SearchSpace == registry[ML_TASK]["Xgboost"]["params"]
SelValues == SearchSpace[out.key]
ReturnedIds == {out.params_1, out.params_2} \ {None}
DiffKeys(a, b) == {k \in DOMAIN a \cap DOMAIN b : a[k] # b[k]}
Matches(values, v) == {i \in 1..Len(values) : values[i] = v}
Max(S) == CHOOSE m \in S : \A n \in S : n <= m
NoEqualNeighbours(values) == \A i \in 1..(Len(values) - 1) : values[i] # values[i + 1]

\* C1 as stated: every returned configuration differs from the input in
\* exactly one key, a tunable one, with no key added or removed.
SingleKeyDifference ==
  Returned =>
    \A id \in ReturnedIds :
      /\ DOMAIN heap[id] = DOMAIN P
      /\ \E k \in DOMAIN P \ ReservedKeys : DiffKeys(heap[id], P) = {k}

\* C1 amended: every returned configuration has the keys of the input and
\* agrees with it on every key except the selected one, which is tunable; it
\* differs from the input in exactly that key whenever the registered sequence
\* of the selected key has no two equal adjacent values.
SingleKeyDifferenceAmended ==
  Returned =>
    \A id \in ReturnedIds :
      /\ DOMAIN heap[id] = DOMAIN P
      /\ out.key \in DOMAIN P \ ReservedKeys
      /\ DiffKeys(heap[id], P) \subseteq {out.key}
      /\ NoEqualNeighbours(SelValues) => DiffKeys(heap[id], P) = {out.key}

SingleKeyWitness ==
  /\ Returned
  /\ out.params_1 # None /\ out.params_2 # None
  /\ "num_class" \in DOMAIN P
  /\ DiffKeys(heap[out.params_1], P) = {out.key}
  /\ DiffKeys(heap[out.params_2], P) = {out.key}

\* C2: the changed value of a returned right configuration is the element that
\* follows an occurrence of the input's value in the registered sequence of the
\* selected key; that of a returned left configuration is the element that
\* precedes an occurrence of it.
AdjacencyLaw ==
  Stepped =>
    /\ out.params_2 # None =>
          \E i \in Matches(SelValues, P[out.key]) :
            i + 1 <= Len(SelValues) /\ heap[out.params_2][out.key] = SelValues[i + 1]
    /\ out.params_1 # None =>
          \E i \in Matches(SelValues, P[out.key]) :
            i - 1 >= 1 /\ heap[out.params_1][out.key] = SelValues[i - 1]

AdjacencyWitness ==
  /\ Stepped
  /\ Len(SelValues) = 3
  /\ P[out.key] = SelValues[2]
  /\ out.params_1 # None /\ heap[out.params_1][out.key] = SelValues[1]
  /\ out.params_2 # None /\ heap[out.params_2][out.key] = SelValues[3]
  /\ SelValues[1] # SelValues[3]

Determinism ==
  (Returned /\ ref.seed = seedArg) =>
    /\ out.status = ref.status
    /\ out.key = ref.key
    /\ Content(out.params_1) = ref.left
    /\ Content(out.params_2) = ref.right

DeterminismWitness ==
  /\ Returned /\ ref.seed = seedArg
  /\ out.status = "ok" /\ out.params_2 # None
  /\ Len(SearchSpace["eta"]) > 1 /\ Len(SearchSpace["max_depth"]) > 1
  /\ TunableNames \subseteq DOMAIN P
  /\ rng # np_random_seed(rng, seedArg)

\* C5: a registered configuration whose tunable keys all have a one-element
\* registered sequence (also one with no tunable key) makes get return
\* (null, null) without raising.
NoOpLaw ==
  (/\ Returned
   /\ Registered(registry, ML_TASK, P["model_type"])
   /\ \A k \in DOMAIN P \ ReservedKeys : Len(SearchSpace[k]) = 1)
    => (out.status = "ok" /\ out.params_1 = None /\ out.params_2 = None)

\* C6: a Baseline configuration makes get return (null, null), although
\* (ml_task, "Baseline") is not registered.
BaselineLaw ==
  (Returned /\ P["model_type"] = "Baseline") =>
    (out.status = "ok" /\ out.params_1 = None /\ out.params_2 = None)

BaselineWitness ==
  /\ Returned /\ P["model_type"] = "Baseline"
  /\ ~Registered(registry, ML_TASK, "Baseline")
  /\ TunableNames \subseteq DOMAIN P
  /\ Len(SearchSpace["eta"]) > 1
  /\ out.status = "ok" /\ out.params_1 = None /\ out.params_2 = None

\* C7: a thread that finished get holds the result that get returns for its
\* arguments when it runs alone, under every interleaving.
ConcurrentSafety ==
  \A t \in Threads :
    tpc[t] = "done" =>
      tout[t] = Outcome(P, get(P, registry, ML_TASK, tseed[t], 0))

\* C8: a call of get leaves the process-wide generator as it found it.
CallLocalSeeding ==
  [][(\E seed \in Seeds : Get(seed)) => rng' = rng]_vars

\* C9: no step of get or of a caller that modifies a returned configuration
\* changes the input configuration or the registry.
InputsUnchanged ==
  [][heap'[ParamsId] = heap[ParamsId] /\ registry' = registry]_vars

InputsUnchangedWitness ==
  /\ phase = "modified"
  /\ out.params_1 # None /\ out.params_2 # None
  /\ heap[out.params_1] # P /\ heap[out.params_2] # P
  /\ DiffKeys(heap[out.params_1], P) # {out.key}

\* C10: when the input's value of the selected key occurs more than once in
\* the registered sequence, the last occurrence j alone decides both
\* neighbours: right is the element at j+1 or absent, left the element at j-1
\* or absent.
LastMatchWins ==
  (Stepped /\ Cardinality(Matches(SelValues, P[out.key])) > 1) =>
    LET j == Max(Matches(SelValues, P[out.key]))
    IN /\ Content(out.params_2) = IF j + 1 <= Len(SelValues) THEN SelValues[j + 1] ELSE None
       /\ Content(out.params_1) = IF j - 1 >= 1 THEN SelValues[j - 1] ELSE None

====
